---- MODULE Spec2Model ----
(***************************************************************************)
(* A model of ThumbnailSequence::Impl (src/ThumbnailSequence.cpp): the     *)
(* multi-index item store, the single-column layout, the scene rectangle   *)
(* and the click / ctrl-click / shift-click selection logic.               *)
(*                                                                         *)
(* A PageId is encoded as the integer 3 * image + subPage, so that the     *)
(* integer order is the (image, subPage) order the by-id index relies on   *)
(* (see the lower_bound() comments in insert() and removePages()).  An     *)
(* Item is named by its PageId; removePages() renames the items it         *)
(* singularizes.  An iterator into a sequenced index is a position         *)
(* 1..Len+1, Len+1 being end().                                            *)
(***************************************************************************)
EXTENDS Integers, Sequences, FiniteSets, TLC

\* ------------------------------------------------------------------ bounds
\* insert() is not taken once the page number it would assign exceeds this.
MaxPageNum == 1
\* The same bound, for the insert specification.
MaxInsertPageNum == 3
\* The number of single pages of the list the click specification resets to.
NumClickPages == 3

\* ------------------------------------------------------- program constants
SPACING == 10
\* CompositeItem::boundingRect() starts 5 units above the item's position.
BoundingTop == 5
SINGLE_PAGE == 0
LEFT_PAGE == 1
RIGHT_PAGE == 2
\* The null Item pointer and the null ImageId.
NullItem == 0
NullImage == 0

\* ------------------------------------------------------------ input sets
Images == {1, 2}
\* The images the document model may split into a left and a right page.
SplitImages == {1}
\* (half width of the thumbnail, height of the composite's bounding rect)
\* of the visuals the thumbnail factory may produce.
Visuals == {[hw |-> 3, h |-> 20]}
\* The order providers reset() may be given; "none" is the null pointer.
NoProvider == "none"
Providers == {NoProvider, "imageDesc"}
\* A provider compares pages by data kept outside the sequence, so what it
\* answers may change between two operations: "imageDesc" and "imageAsc" are
\* the two answers of one provider.
ChangingProviders == Providers \cup {"imageAsc"}
\* Visuals of two sizes, for the operations that replace a visual.
LayoutVisuals == Visuals \cup {[hw |-> 5, h |-> 30]}

Pid(image, sub) == 3 * image + sub
ImageOf(p) == p \div 3
SubPage(p) == p % 3
NullPageId == Pid(NullImage, SINGLE_PAGE)
PageIds ==
    {Pid(i, SINGLE_PAGE) : i \in Images}
    \cup {Pid(i, s) : i \in SplitImages, s \in {LEFT_PAGE, RIGHT_PAGE}}

\* PageOrderProvider::precedes() of the provider installed by reset().
Precedes(provider, a, b) ==
    \/ /\ provider = "imageDesc"
       /\ ImageOf(a) > ImageOf(b)
    \/ /\ provider = "imageAsc"
       /\ ImageOf(a) < ImageOf(b)

SELECTED_BY_USER == "SELECTED_BY_USER"
REDUNDANT_SELECTION == "REDUNDANT_SELECTION"
AVOID_SCROLLING_TO == "AVOID_SCROLLING_TO"
DEFAULT_SELECTION_FLAGS == {}

VARIABLES
    m_itemsInOrder,            \* display order: Seq(PageId)
    m_selectedThenUnselected,  \* third index: Seq(PageId)
    flags,                     \* id -> [isSelected, isSelectionLeader]
    pageNum,                   \* id -> Item::pageNum
    composite,                 \* id -> [hw, h, x, y] of Item::composite
    m_pSelectionLeader,        \* a PageId of the store, or NullItem
    m_ptrOrderProvider,        \* a member of Providers
    m_sceneRect,               \* [l, t, r, b]
    sceneRect,                 \* the rectangle given to the QGraphicsScene
    signals,                   \* newSelectionLeader() emissions of the last call
    lastOp,                    \* the last call: "reset", "plain", "ctrl", ...
    crashed,                   \* a null pointer was dereferenced
    canvas,                    \* the visuals m_graphicsScene holds
    pc                         \* where the operation in progress stands

vars == <<m_itemsInOrder, m_selectedThenUnselected, flags, pageNum, composite,
          m_pSelectionLeader, m_ptrOrderProvider, m_sceneRect, sceneRect,
          signals, lastOp, crashed, canvas, pc>>

\* ------------------------------------------------------------- sequences
Range(s) == {s[i] : i \in 1..Len(s)}
IndexOf(s, e) == CHOOSE i \in 1..Len(s) : s[i] = e
Remove(s, e) == SelectSeq(s, LAMBDA x : x # e)
\* The sequence with e put before position p (p = Len+1: at the end).
InsertAt(s, p, e) == SubSeq(s, 1, p - 1) \o <<e>> \o SubSeq(s, p, Len(s))
Min(a, b) == IF a < b THEN a ELSE b
Max(a, b) == IF a > b THEN a ELSE b

\* -------------------------------------------------------------- QRectF
NullRect == [l |-> 0, t |-> 0, r |-> 0, b |-> 0]
IsNull(rc) == rc.r = rc.l /\ rc.b = rc.t
\* QRectF::operator|
United(a, b) ==
    IF IsNull(a) THEN b
    ELSE IF IsNull(b) THEN a
    ELSE [l |-> Min(a.l, b.l), t |-> Min(a.t, b.t),
          r |-> Max(a.r, b.r), b |-> Max(a.b, b.b)]

\* (mutant) the scene rectangle is left as it was
updateSceneRect_Keep(c, scene_rect) == scene_rect
\* CompositeItem::updateSceneRect: the thumbnail's horizontal extent and the
\* bounding rectangle's vertical extent, at the composite's position.
CompositeRect(c) ==
    [l |-> c.x - c.hw, t |-> c.y - BoundingTop,
     r |-> c.x + c.hw, b |-> c.y - BoundingTop + c.h]
updateSceneRect(c, scene_rect) == United(scene_rect, CompositeRect(c))

\* Impl::commitSceneRect: what the QGraphicsScene is given.
CommittedRect(rc) ==
    IF IsNull(rc) THEN [l |-> 0, t |-> 0, r |-> 1, b |-> 1] ELSE rc

\* -------------------------------------------------------- Item's flags
NewFlags == [isSelected |-> FALSE, isSelectionLeader |-> FALSE]
\* (mutant) unselecting an item leaves its leader flag alone
setSelected_KeepLeader(fl, id, selected) ==
    [fl EXCEPT ![id].isSelected = selected]
\* (mutant) the selected flag is never written
setSelected_Stay(fl, id, selected) == fl
\* Item::setSelected
setSelected(fl, id, selected) ==
    [fl EXCEPT ![id] = [isSelected |-> selected,
                        isSelectionLeader |-> @.isSelectionLeader /\ selected]]
\* (mutant) taking the leader flag away unselects the item as well
setSelectionLeader_Exclusive(fl, id, selection_leader) ==
    [fl EXCEPT ![id] = [isSelected |-> selection_leader,
                        isSelectionLeader |-> selection_leader]]
\* (mutant) the leader flag is set without selecting the item
setSelectionLeader_LeaderOnly(fl, id, selection_leader) ==
    [fl EXCEPT ![id].isSelectionLeader = selection_leader]
\* (mutant) the leader flag is never written
setSelectionLeader_Never(fl, id, selection_leader) == fl
\* Item::setSelectionLeader
setSelectionLeader(fl, id, selection_leader) ==
    [fl EXCEPT ![id] = [isSelected |-> @.isSelected \/ selection_leader,
                        isSelectionLeader |-> selection_leader]]

\* --------------------------------------------- selected-then-unselected
\* Impl::moveToSelected / moveToUnselected: relocate to begin() / end().
\* (mutant) the item is left where it is
moveToSelected_Stay(sto, id) == sto
moveToSelected(sto, id) == <<id>> \o Remove(sto, id)
\* (mutant) the item is left where it is
moveToUnselected_Stay(sto, id) == sto
\* (mutant) the item leaves the third index
moveToUnselected_Drop(sto, id) == Remove(sto, id)
moveToUnselected(sto, id) == Remove(sto, id) \o <<id>>

\* The length of the leading run of selected items of the third index:
\* what a loop that breaks at the first unselected item walks over.
RECURSIVE SelectedRun(_, _, _)
SelectedRun(sto, fl, i) ==
    IF i > Len(sto) \/ ~fl[sto[i]].isSelected THEN i - 1
    ELSE SelectedRun(sto, fl, i + 1)
SelectedPrefix(sto, fl) == SubSeq(sto, 1, SelectedRun(sto, fl, 1))

\* Impl::selectedItems
selectedItems == Range(SelectedPrefix(m_selectedThenUnselected, flags))

\* Impl::multipleItemsSelected
multipleItemsSelected ==
    SelectedRun(m_selectedThenUnselected, flags, 1) >= 2

\* Impl::clearSelection: the flags once every item of the leading selected
\* run is unselected (nothing is relocated).
RECURSIVE UnselectAll(_, _, _)
UnselectAll(fl, s, i) ==
    IF i > Len(s) THEN fl
    ELSE UnselectAll(setSelected(fl, s[i], FALSE), s, i + 1)
\* (mutant) nothing is unselected
clearSelection_Keep(fl, sto) == fl
clearSelection(fl, sto) == UnselectAll(fl, SelectedPrefix(sto, fl), 1)

\* ----------------------------------------------------------------- layout
\* (mutant) the next item is put right under the previous one
Below_NoSpacing(c) == c.y + c.h
\* "prev->composite->pos().y() + prev->composite->boundingRect().height()
\* + SPACING": where the item after the one shown as c starts.
Below(c) == c.y + c.h + SPACING

\* The loops "setPos(0.0, offset); offset += height + SPACING" over the
\* positions [from, to) of the display order: the composites and the offset
\* they leave.
RECURSIVE Stack(_, _, _, _, _)
Stack(order, comp, from, to, offset) ==
    IF from >= to THEN [comp |-> comp, offset |-> offset]
    ELSE Stack(order,
               [comp EXCEPT ![order[from]].x = 0, ![order[from]].y = offset],
               from + 1, to, offset + comp[order[from]].h + SPACING)

\* The loops "setPos(pos() + pos_delta)" over the positions [from, to).
RECURSIVE Shift(_, _, _, _, _)
Shift(order, comp, from, to, dy) ==
    IF from >= to THEN comp
    ELSE Shift(order, [comp EXCEPT ![order[from]].y = @ + dy], from + 1, to, dy)

\* updateSceneRect() of the composites at the positions [from, to).
RECURSIVE UniteAll(_, _, _, _, _)
UniteAll(order, comp, from, to, rc) ==
    IF from >= to THEN rc
    ELSE UniteAll(order, comp, from + 1, to, updateSceneRect(comp[order[from]], rc))

\* A composite fresh from getCompositeItem(): at the origin.
NewComposite(v) == [hw |-> v.hw, h |-> v.h, x |-> 0, y |-> 0]

\* ------------------------------------------------------------- ordering
\* std::stable_sort / sequenced_index::sort with the provider's comparator:
\* a stable insertion sort.
RECURSIVE SortedInsert(_, _, _)
SortedInsert(provider, s, e) ==
    IF s # <<>> /\ Precedes(provider, e, s[Len(s)])
    THEN SortedInsert(provider, SubSeq(s, 1, Len(s) - 1), e) \o <<s[Len(s)]>>
    ELSE s \o <<e>>
RECURSIVE StableSort(_, _)
StableSort(provider, s) ==
    IF s = <<>> THEN s
    ELSE SortedInsert(provider,
                      StableSort(provider, SubSeq(s, 1, Len(s) - 1)), s[Len(s)])

\* Impl::itemInsertPosition: [pos, dist].
RECURSIVE MoveBack(_, _, _, _, _, _)
MoveBack(provider, s, begin, page_id, ins_pos, dist) ==
    IF ins_pos # begin /\ Precedes(provider, page_id, s[ins_pos])
    THEN MoveBack(provider, s, begin, page_id, ins_pos - 1, dist - 1)
    ELSE [pos |-> ins_pos, dist |-> dist]
RECURSIVE Advance(_, _, _, _, _, _)
Advance(provider, s, end, page_id, ins_pos, dist) ==
    IF ins_pos # end /\ ~Precedes(provider, page_id, s[ins_pos])
    THEN Advance(provider, s, end, page_id, ins_pos + 1, dist + 1)
    ELSE [pos |-> ins_pos, dist |-> dist]
\* (mutant) the hint is returned whatever the provider answers
itemInsertPosition_Hint(provider, s, begin, end, page_id, hint) ==
    [pos |-> hint, dist |-> 0]
\* (mutant) the end of the range is returned
itemInsertPosition_End(provider, s, begin, end, page_id, hint) ==
    [pos |-> end, dist |-> end - hint]
itemInsertPosition(provider, s, begin, end, page_id, hint) ==
    IF provider = NoProvider THEN [pos |-> hint, dist |-> 0]
    ELSE LET back == IF hint = begin THEN [pos |-> hint, dist |-> 0]
                     ELSE IF hint = end
                          THEN MoveBack(provider, s, begin, page_id, hint - 1, 0 - 1)
                          ELSE MoveBack(provider, s, begin, page_id, hint, 0)
         IN  Advance(provider, s, end, page_id, back.pos, back.dist)

\* ------------------------------------------------------------- snapshots
\* The page lists a PageSequenceSnapshot may hold: some images in some
\* order, each either a single page or a left page followed by a right one.
RECURSIVE InjectiveSeqs(_, _)
InjectiveSeqs(S, n) ==
    IF n = 0 THEN {<<>>}
    ELSE LET shorter == InjectiveSeqs(S, n - 1)
         IN  shorter \cup
             UNION {{Append(s, e) : e \in S \ Range(s)} :
                    s \in {t \in shorter : Len(t) = n - 1}}
RECURSIVE ExpandImages(_, _)
ExpandImages(imgs, split) ==
    IF imgs = <<>> THEN <<>>
    ELSE (IF split[Head(imgs)]
          THEN <<Pid(Head(imgs), LEFT_PAGE), Pid(Head(imgs), RIGHT_PAGE)>>
          ELSE <<Pid(Head(imgs), SINGLE_PAGE)>>)
         \o ExpandImages(Tail(imgs), split)
PageLists ==
    {ExpandImages(s, c) : s \in InjectiveSeqs(Images, Cardinality(Images)),
                          c \in [Images -> BOOLEAN]}
    \cap Seq(PageIds)

\* A set of page ids the document model can hold: an image is one single
\* page, or left and right halves.
Consistent(S) ==
    \A p, q \in S :
        (p # q /\ ImageOf(p) = ImageOf(q)) =>
            (SubPage(p) # SINGLE_PAGE /\ SubPage(q) # SINGLE_PAGE)

\* -------------------------------------------------- notifications, calls
\* ThumbnailSequence::emitNewSelectionLeader(page_info, composite, flags):
\* the page id carried, the item whose composite gives the rectangle, and
\* the flags.
Signal(page, item, fl) == [page |-> page, item |-> item, flags |-> fl]

KEEP_SELECTION == "KEEP_SELECTION"
RESET_SELECTION == "RESET_SELECTION"

\* ----------------------------------------------------------- the canvas
\* A visual on the canvas: the composite of a page, either the one the
\* page's record refers to (Item::composite) or a fresh one that the record
\* does not refer to yet.
Visual(page_id, fresh) == [page |-> page_id, fresh |-> fresh]
\* The canvas between two operations: one visual for each page of the store.
OnCanvas(ids) == {Visual(id, FALSE) : id \in ids}

\* No operation is in progress.
Idle == [op |-> "idle", line |-> 0, args |-> <<>>]
\* An operation taken as a single step: it starts when none is in progress
\* and leaves on the canvas the visuals of the pages it leaves in the store.
Settled ==
    /\ pc = Idle
    /\ pc' = Idle
    /\ canvas' = OnCanvas(Range(m_itemsInOrder'))

\* ------------------------------------------------------------ Impl::Impl
Init ==
    /\ m_itemsInOrder = <<>>
    /\ m_selectedThenUnselected = <<>>
    /\ flags = <<>>
    /\ pageNum = <<>>
    /\ composite = <<>>
    /\ m_pSelectionLeader = NullItem
    /\ m_ptrOrderProvider = NoProvider
    /\ m_sceneRect = NullRect
    /\ sceneRect = NullRect
    /\ signals = <<>>
    /\ lastOp = "init"
    /\ crashed = FALSE
    /\ canvas = {}
    /\ pc = Idle

\* ----------------------------------------------------------- Impl::reset
\* The third index after the loop of reset(): every item is pushed to the
\* back, and moved to the front if it is selected.
RECURSIVE ResetSelectedThenUnselected(_, _, _)
ResetSelectedThenUnselected(sorted, selected, i) ==
    IF i = 0 THEN <<>>
    ELSE LET sto == ResetSelectedThenUnselected(sorted, selected, i - 1) \o <<sorted[i]>>
         IN  IF sorted[i] \in selected THEN moveToSelected(sto, sorted[i]) ELSE sto

\* The item some_selected_item / m_pSelectionLeader is left pointing to:
\* the last position of the sorted list whose id is in S, or NullItem.
\* (mutant) no item of the list is ever found
LastIn_None(sorted, S) == NullItem
LastIn(sorted, S) ==
    IF \E i \in 1..Len(sorted) : sorted[i] \in S
    THEN sorted[CHOOSE i \in 1..Len(sorted) :
                    /\ sorted[i] \in S
                    /\ \A j \in (i + 1)..Len(sorted) : sorted[j] \notin S]
    ELSE NullItem

reset(pages, cur_page, selection_action, order_provider, vis) ==
    LET selected == IF selection_action = KEEP_SELECTION THEN selectedItems ELSE {}
        \* PageInfo selection_leader: default constructed, or the leader's
        selection_leader ==
            IF selection_action = KEEP_SELECTION /\ m_pSelectionLeader # NullItem
            THEN m_pSelectionLeader ELSE NullPageId
        sorted == IF order_provider # NoProvider
                  THEN StableSort(order_provider, pages) ELSE pages
        ids == Range(sorted)
        n == Len(sorted)
        comp0 == [id \in ids |-> NewComposite(vis[id])]
        comp1 == Stack(sorted, comp0, 1, n + 1, 0).comp
        fl1 == [id \in ids |-> [isSelected |-> id \in selected,
                                isSelectionLeader |-> FALSE]]
        sto1 == ResetSelectedThenUnselected(sorted, selected, n)
        leader1 == LastIn(sorted, {selection_leader})
        some_selected_item == LastIn(sorted, selected)
        leader2 == IF leader1 # NullItem THEN leader1
                   ELSE IF some_selected_item # NullItem THEN some_selected_item
                   ELSE IF cur_page \in ids THEN cur_page
                   ELSE NullItem
        by_cur_page == leader1 = NullItem /\ some_selected_item = NullItem
                       /\ leader2 # NullItem
        sto2 == IF by_cur_page THEN moveToSelected(sto1, leader2) ELSE sto1
        rect == UniteAll(sorted, comp1, 1, n + 1, NullRect)
    IN  /\ ~crashed
        /\ m_ptrOrderProvider' = order_provider
        /\ m_itemsInOrder' = sorted
        /\ pageNum' = [id \in ids |-> IndexOf(sorted, id) - 1]
        /\ composite' = comp1
        /\ m_selectedThenUnselected' = sto2
        /\ m_pSelectionLeader' = leader2
        /\ flags' = IF leader2 # NullItem
                    THEN setSelectionLeader(fl1, leader2, TRUE) ELSE fl1
        /\ m_sceneRect' = rect
        /\ sceneRect' = CommittedRect(rect)
        /\ signals' = IF leader2 # NullItem
                      THEN <<Signal(selection_leader, leader2, DEFAULT_SELECTION_FLAGS)>>
                      ELSE <<>>
        /\ lastOp' = "reset"
        /\ UNCHANGED crashed

\* reset() with one of the page lists and one of the order providers given.
ResetTo(lists, providers) ==
    \E pages \in lists, selection_action \in {KEEP_SELECTION, RESET_SELECTION},
       order_provider \in providers :
        \E cur_page \in Range(pages) \cup {NullPageId},
           vis \in [Range(pages) -> Visuals] :
            reset(pages, cur_page, selection_action, order_provider, vis)

Reset == ResetTo(PageLists, {NoProvider})

\* ------------------------------------------------------ Impl::setSelection
setSelection(page_id) ==
    IF page_id \notin Range(m_itemsInOrder)
    THEN /\ signals' = <<>>
         /\ lastOp' = "setSelection"
         /\ UNCHANGED <<m_itemsInOrder, m_selectedThenUnselected, flags, pageNum,
                        composite, m_pSelectionLeader, m_ptrOrderProvider,
                        m_sceneRect, sceneRect, crashed>>
    ELSE
    LET was_selection_leader == (page_id = m_pSelectionLeader)
        \* the other items of the leading selected run, in the order visited
        others == SelectSeq(SelectedPrefix(m_selectedThenUnselected, flags),
                            LAMBDA id : id # page_id)
        fl1 == UnselectAll(flags, others, 1)
        sto1 == SelectSeq(m_selectedThenUnselected, LAMBDA id : id \notin Range(others))
                \o others
        leader1 == IF m_pSelectionLeader \in Range(others)
                   THEN NullItem ELSE m_pSelectionLeader
    IN  /\ m_pSelectionLeader' = IF was_selection_leader THEN leader1 ELSE page_id
        /\ flags' = IF was_selection_leader THEN fl1
                    ELSE setSelectionLeader(fl1, page_id, TRUE)
        /\ m_selectedThenUnselected' =
               IF was_selection_leader THEN sto1 ELSE moveToSelected(sto1, page_id)
        /\ signals' = <<Signal(page_id, page_id,
                               IF was_selection_leader
                               THEN DEFAULT_SELECTION_FLAGS \cup {REDUNDANT_SELECTION}
                               ELSE DEFAULT_SELECTION_FLAGS)>>
        /\ lastOp' = "setSelection"
        /\ UNCHANGED <<m_itemsInOrder, pageNum, composite, m_ptrOrderProvider,
                       m_sceneRect, sceneRect, crashed>>

SetSelectionOf(ids) ==
    /\ ~crashed
    /\ \E page_id \in ids : setSelection(page_id)

SetSelection == SetSelectionOf(PageIds)

\* ---------------------------------------------- Impl::selectItemNoModifiers
\* (mutant) the redundant flag is never raised
NoModifiersFlags_Never(id) == {SELECTED_BY_USER}
\* The flags computed before the selection is cleared.
NoModifiersFlags(id) ==
    IF m_pSelectionLeader = id
    THEN {SELECTED_BY_USER, REDUNDANT_SELECTION}
    ELSE {SELECTED_BY_USER}

selectItemNoModifiers(id, kind) ==
    LET fl1 == clearSelection(flags, m_selectedThenUnselected)
    IN  /\ m_pSelectionLeader' = id
        /\ flags' = setSelectionLeader(fl1, id, TRUE)
        /\ m_selectedThenUnselected' = moveToSelected(m_selectedThenUnselected, id)
        /\ signals' = <<Signal(id, id, NoModifiersFlags(id))>>
        /\ lastOp' = kind
        /\ UNCHANGED <<m_itemsInOrder, pageNum, composite, m_ptrOrderProvider,
                       m_sceneRect, sceneRect, crashed>>

\* ---------------------------------------------- Impl::selectItemWithControl
\* The new leader after the leader at position pos was unselected: the
\* cursors ord_it1 and ord_it2 walk away from pos, the backward one first.
\* (mutant) the forward cursor is tried before the backward one
RECURSIVE NearestSelected_ForwardFirst(_, _, _, _)
NearestSelected_ForwardFirst(order, fl, ord_it1, ord_it2) ==
    LET it1 == IF ord_it1 # 1 THEN ord_it1 - 1 ELSE ord_it1
        it2 == IF ord_it2 # Len(order) + 1 THEN ord_it2 + 1 ELSE ord_it2
    IN  IF ord_it2 # Len(order) + 1 /\ it2 # Len(order) + 1
           /\ fl[order[it2]].isSelected THEN order[it2]
        ELSE IF ord_it1 # 1 /\ fl[order[it1]].isSelected THEN order[it1]
        ELSE NearestSelected_ForwardFirst(order, fl, it1, it2)

RECURSIVE NearestSelected(_, _, _, _)
NearestSelected(order, fl, ord_it1, ord_it2) ==
    LET it1 == IF ord_it1 # 1 THEN ord_it1 - 1 ELSE ord_it1
        it2 == IF ord_it2 # Len(order) + 1 THEN ord_it2 + 1 ELSE ord_it2
    IN  IF ord_it1 # 1 /\ fl[order[it1]].isSelected THEN order[it1]
        ELSE IF ord_it2 # Len(order) + 1 /\ it2 # Len(order) + 1
                /\ fl[order[it2]].isSelected THEN order[it2]
        ELSE NearestSelected(order, fl, it1, it2)

selectItemWithControl(id) ==
    IF ~flags[id].isSelected
    THEN \* select it and make it the leader
         LET fl1 == IF m_pSelectionLeader # NullItem
                    THEN setSelectionLeader(flags, m_pSelectionLeader, FALSE)
                    ELSE flags
         IN  /\ m_pSelectionLeader' = id
             /\ flags' = setSelectionLeader(fl1, id, TRUE)
             /\ m_selectedThenUnselected' = moveToSelected(m_selectedThenUnselected, id)
             /\ signals' = <<Signal(id, id, {SELECTED_BY_USER})>>
             /\ lastOp' = "ctrl"
             /\ UNCHANGED <<m_itemsInOrder, pageNum, composite, m_ptrOrderProvider,
                            m_sceneRect, sceneRect, crashed>>
    ELSE IF ~multipleItemsSelected
    THEN \* clicked on the only selected item: m_pSelectionLeader is dereferenced
         /\ IF m_pSelectionLeader # NullItem
            THEN /\ signals' = <<Signal(m_pSelectionLeader, m_pSelectionLeader,
                                        {SELECTED_BY_USER, REDUNDANT_SELECTION})>>
                 /\ lastOp' = "ctrl"
                 /\ UNCHANGED crashed
            ELSE \* a null pointer dereference: the call dies, or reads garbage
                 \/ /\ crashed' = TRUE
                    /\ signals' = <<>>
                    /\ lastOp' = "ctrl"
                 \/ /\ \E garbage \in Range(m_itemsInOrder) \cup {NullPageId} :
                           signals' = <<Signal(garbage, NullItem,
                                               {SELECTED_BY_USER, REDUNDANT_SELECTION})>>
                    /\ lastOp' = "ctrl"
                    /\ UNCHANGED crashed
         /\ UNCHANGED <<m_itemsInOrder, m_selectedThenUnselected, flags, pageNum,
                        composite, m_pSelectionLeader, m_ptrOrderProvider,
                        m_sceneRect, sceneRect>>
    ELSE \* unselect it
         LET fl1 == setSelected(flags, id, FALSE)
             sto1 == moveToUnselected(m_selectedThenUnselected, id)
         IN  IF m_pSelectionLeader # id
             THEN /\ flags' = fl1
                  /\ m_selectedThenUnselected' = sto1
                  /\ signals' = <<>>
                  /\ lastOp' = "ctrl"
                  /\ UNCHANGED <<m_itemsInOrder, pageNum, composite, m_pSelectionLeader,
                                 m_ptrOrderProvider, m_sceneRect, sceneRect, crashed>>
             ELSE LET pos == IndexOf(m_itemsInOrder, id)
                      leader1 == NearestSelected(m_itemsInOrder, fl1, pos, pos)
                  IN  /\ m_pSelectionLeader' = leader1
                      /\ flags' = setSelectionLeader(fl1, leader1, TRUE)
                      /\ m_selectedThenUnselected' = sto1
                      /\ signals' = <<Signal(leader1, leader1,
                                             {SELECTED_BY_USER, AVOID_SCROLLING_TO})>>
                      /\ lastOp' = "ctrl"
                      /\ UNCHANGED <<m_itemsInOrder, pageNum, composite,
                                     m_ptrOrderProvider, m_sceneRect, sceneRect, crashed>>

\* ------------------------------------------------ Impl::selectItemWithShift
\* setSelected(true) and moveToSelected() of the positions [from, to].
RECURSIVE SelectRange(_, _, _, _, _)
SelectRange(order, fl, sto, from, to) ==
    IF from > to THEN [fl |-> fl, sto |-> sto]
    ELSE SelectRange(order, setSelected(fl, order[from], TRUE),
                     moveToSelected(sto, order[from]), from + 1, to)

\* Which endpoint precedes the other: whether the cursor walking back from
\* the leader meets the clicked item before the cursor walking forward does.
\* (mutant) the clicked item is taken to follow the leader
FoundBefore_Never(n, ord_it1, ord_it2, endpoint2) == FALSE
RECURSIVE FoundBefore(_, _, _, _)
FoundBefore(n, ord_it1, ord_it2, endpoint2) ==
    LET it1 == IF ord_it1 # 1 THEN ord_it1 - 1 ELSE ord_it1
        it2 == IF ord_it2 # n + 1 THEN ord_it2 + 1 ELSE ord_it2
    IN  IF ord_it1 # 1 /\ it1 = endpoint2 THEN TRUE
        ELSE IF ord_it2 # n + 1 /\ it2 # n + 1 /\ it2 = endpoint2 THEN FALSE
        ELSE FoundBefore(n, it1, it2, endpoint2)

selectItemWithShift(id) ==
    IF m_pSelectionLeader = NullItem THEN selectItemNoModifiers(id, "shift")
    ELSE
    LET endpoint1 == IndexOf(m_itemsInOrder, m_pSelectionLeader)
        endpoint2 == IndexOf(m_itemsInOrder, id)
    IN  IF endpoint1 = endpoint2
        THEN \* one-element sequence, already selected: returns
             /\ signals' = <<>>
             /\ lastOp' = "shift"
             /\ UNCHANGED <<m_itemsInOrder, m_selectedThenUnselected, flags, pageNum,
                            composite, m_pSelectionLeader, m_ptrOrderProvider,
                            m_sceneRect, sceneRect, crashed>>
        ELSE
        LET swap == FoundBefore(Len(m_itemsInOrder), endpoint1, endpoint1, endpoint2)
            first == IF swap THEN endpoint2 ELSE endpoint1
            last == IF swap THEN endpoint1 ELSE endpoint2
            sel == SelectRange(m_itemsInOrder, flags, m_selectedThenUnselected,
                               first, last)
            fl2 == setSelectionLeader(sel.fl, m_pSelectionLeader, FALSE)
        IN  /\ m_pSelectionLeader' = id
            /\ flags' = setSelectionLeader(fl2, id, TRUE)
            /\ m_selectedThenUnselected' = sel.sto
            /\ signals' = <<Signal(id, id, {SELECTED_BY_USER})>>
            /\ lastOp' = "shift"
            /\ UNCHANGED <<m_itemsInOrder, pageNum, composite, m_ptrOrderProvider,
                           m_sceneRect, sceneRect, crashed>>

\* ------------------------------------------------ Impl::itemSelectedByUser
\* A left click on the composite of an item of the store.
ClickNoModifiers ==
    /\ ~crashed
    /\ \E id \in Range(m_itemsInOrder) : selectItemNoModifiers(id, "plain")
ClickWithControl ==
    /\ ~crashed
    /\ \E id \in Range(m_itemsInOrder) : selectItemWithControl(id)
ClickWithShift ==
    /\ ~crashed
    /\ \E id \in Range(m_itemsInOrder) : selectItemWithShift(id)

\* ------------------------------------------------ Impl::invalidateThumbnail
invalidateThumbnail(page_id, v) ==
    IF page_id \notin Range(m_itemsInOrder)
    THEN /\ signals' = <<>>
         /\ lastOp' = "invalidateThumbnail"
         /\ UNCHANGED <<m_itemsInOrder, m_selectedThenUnselected, flags, pageNum,
                        composite, m_pSelectionLeader, m_ptrOrderProvider,
                        m_sceneRect, sceneRect, crashed>>
    ELSE
    LET n == Len(m_itemsInOrder)
        new_composite == NewComposite(v)
        old_composite == composite[page_id]
        size_changed == old_composite.hw # new_composite.hw
                        \/ old_composite.h # new_composite.h
        \* old_pos is read from the new composite
        old_pos == [x |-> new_composite.x, y |-> new_composite.y]
        comp0 == [composite EXCEPT ![page_id] = new_composite]
        \* the item relocated to begin(); after_old keeps its position
        i == IndexOf(m_itemsInOrder, page_id)
        at_begin == <<page_id>> \o Remove(m_itemsInOrder, page_id)
        after_old == i + 1
        ins == itemInsertPosition(m_ptrOrderProvider, at_begin, 2, n + 1,
                                  page_id, after_old)
        after_new == ins.pos
        \* the item relocated to before after_new
        order1 == SubSeq(at_begin, 2, after_new - 1) \o <<page_id>>
                  \o SubSeq(at_begin, after_new, n)
        ord_it == IF ins.dist <= 0 THEN after_new - 1 ELSE after_old - 1
        ord_end == IF ins.dist <= 0 THEN after_old ELSE after_new
        offset == IF ord_it # 1 THEN Below(comp0[order1[ord_it - 1]]) ELSE 0
        between == Stack(order1, comp0, ord_it, ord_end, offset)
        comp1 == IF size_changed
                 THEN Stack(order1, between.comp, Max(ord_it, ord_end), n + 1,
                            between.offset).comp
                 ELSE between.comp
        rect0 == [m_sceneRect EXCEPT !.t = m_sceneRect.b]
        rect1 == updateSceneRect(comp1[order1[1]], rect0)
        rect2 == [rect1 EXCEPT !.b = rect1.t]
        rect3 == updateSceneRect(comp1[order1[n]], rect2)
        rect4 == updateSceneRect(comp1[page_id], rect3)
        emits == /\ m_pSelectionLeader = page_id
                 /\ \/ size_changed
                    \/ old_pos # [x |-> comp1[page_id].x, y |-> comp1[page_id].y]
    IN  /\ m_itemsInOrder' = order1
        /\ composite' = comp1
        /\ m_sceneRect' = rect4
        /\ sceneRect' = CommittedRect(rect4)
        /\ signals' = IF emits
                      THEN <<Signal(page_id, page_id, {REDUNDANT_SELECTION})>>
                      ELSE <<>>
        /\ lastOp' = "invalidateThumbnail"
        /\ UNCHANGED <<m_selectedThenUnselected, flags, pageNum, m_pSelectionLeader,
                       m_ptrOrderProvider, crashed>>

InvalidateThumbnail ==
    /\ ~crashed
    /\ \E page_id \in PageIds, v \in Visuals : invalidateThumbnail(page_id, v)

\* -------------------------------------------- Impl::invalidateAllThumbnails
invalidateAllThumbnails(vis) ==
    LET order1 == IF m_ptrOrderProvider # NoProvider
                  THEN StableSort(m_ptrOrderProvider, m_itemsInOrder)
                  ELSE m_itemsInOrder
        n == Len(order1)
        comp0 == [id \in Range(order1) |-> NewComposite(vis[id])]
        comp1 == Stack(order1, comp0, 1, n + 1, 0).comp
        rect == UniteAll(order1, comp1, 1, n + 1, NullRect)
    IN  /\ m_itemsInOrder' = order1
        /\ composite' = comp1
        /\ m_sceneRect' = rect
        /\ sceneRect' = CommittedRect(rect)
        /\ signals' = <<>>
        /\ lastOp' = "invalidateAllThumbnails"
        /\ UNCHANGED <<m_selectedThenUnselected, flags, pageNum, m_pSelectionLeader,
                       m_ptrOrderProvider, crashed>>

InvalidateAllThumbnails ==
    /\ ~crashed
    /\ \E vis \in [Range(m_itemsInOrder) -> Visuals] : invalidateAllThumbnails(vis)

\* ---------------------------------------------------------- Impl::insert
BEFORE == "BEFORE"
AFTER == "AFTER"

\* m_itemsById.lower_bound(PageId(image)): the least id of the store that is
\* not less than (image, SINGLE_PAGE), or NullItem for end().
LowerBound(ids, image) ==
    LET ge == {id \in ids : id >= Pid(image, SINGLE_PAGE)}
    IN  IF ge = {} THEN NullItem
        ELSE CHOOSE id \in ge : \A other \in ge : id <= other

\* The position after pos and after the items of the same image following it.
\* (mutant) the other half is not skipped
SkipImage_None(order, image, pos) == pos
RECURSIVE SkipImage(_, _, _)
SkipImage(order, image, pos) ==
    IF pos # Len(order) + 1 /\ ImageOf(order[pos]) = image
    THEN SkipImage(order, image, pos + 1) ELSE pos

\* (mutant) any page of the store passes for the reference page
ReferenceFound_AnyPage(id_it, image) == id_it # NullItem
\* Whether lower_bound() found a page of the reference image.
ReferenceFound(id_it, image) == id_it # NullItem /\ ImageOf(id_it) = image

insert(page_id, before_or_after, image, v) ==
    LET n == Len(m_itemsInOrder)
        id_it == LowerBound(Range(m_itemsInOrder), image)
        appends == before_or_after = BEFORE /\ image = NullImage
        found == ReferenceFound(id_it, image)
    IN
    IF ~appends /\ ~found
    THEN \* reference page not found
         /\ signals' = <<>>
         /\ lastOp' = "insert"
         /\ UNCHANGED <<m_itemsInOrder, m_selectedThenUnselected, flags, pageNum,
                        composite, m_pSelectionLeader, m_ptrOrderProvider,
                        m_sceneRect, sceneRect, crashed>>
    ELSE
    LET ref == IF appends THEN n + 1 ELSE IndexOf(m_itemsInOrder, id_it)
        hint == IF appends \/ before_or_after = BEFORE THEN ref
                ELSE IF m_ptrOrderProvider = NoProvider
                     THEN SkipImage(m_itemsInOrder, image, ref + 1)
                     ELSE ref + 1
        ord_it == itemInsertPosition(m_ptrOrderProvider, m_itemsInOrder, 1, n + 1,
                                     page_id, hint).pos
        page_num == IF n # 0 THEN pageNum[m_itemsInOrder[n]] + 1 ELSE 0
        offset == IF n = 0 THEN 0
                  ELSE IF ord_it # n + 1 THEN composite[m_itemsInOrder[ord_it]].y
                  ELSE composite[m_itemsInOrder[n]].y
                       + composite[m_itemsInOrder[n]].h + SPACING
        new_composite == [NewComposite(v) EXCEPT !.x = 0, !.y = offset]
        rect0 == updateSceneRect(new_composite, m_sceneRect)
        order1 == InsertAt(m_itemsInOrder, ord_it, page_id)
        comp0 == [id \in Range(order1) |->
                     IF id = page_id THEN new_composite ELSE composite[id]]
        comp1 == Shift(order1, comp0, ord_it + 1, n + 2, new_composite.h + SPACING)
        rect1 == UniteAll(order1, comp1, ord_it + 1, n + 2, rect0)
    IN  /\ m_itemsInOrder' = order1
        /\ m_selectedThenUnselected' = Append(m_selectedThenUnselected, page_id)
        /\ flags' = [id \in Range(order1) |->
                        IF id = page_id THEN NewFlags ELSE flags[id]]
        /\ pageNum' = [id \in Range(order1) |->
                          IF id = page_id THEN page_num ELSE pageNum[id]]
        /\ composite' = comp1
        /\ m_sceneRect' = rect1
        /\ sceneRect' = CommittedRect(rect1)
        /\ signals' = <<>>
        /\ lastOp' = "insert"
        /\ UNCHANGED <<m_pSelectionLeader, m_ptrOrderProvider, crashed>>

\* insert() is called with a page the store does not hold yet and that the
\* document model can hold beside the pages of the store.
InsertBelow(max_page_num) ==
    /\ ~crashed
    /\ m_itemsInOrder # <<>> =>
           pageNum[m_itemsInOrder[Len(m_itemsInOrder)]] < max_page_num
    /\ \E page_id \in PageIds \ Range(m_itemsInOrder),
          before_or_after \in {BEFORE, AFTER},
          image \in Images \cup {NullImage},
          v \in Visuals :
        /\ Consistent(Range(m_itemsInOrder) \cup {page_id})
        /\ insert(page_id, before_or_after, image, v)

Insert == InsertBelow(MaxPageNum)

\* ------------------------------------------------------ Impl::removePages
\* The loop over the display order: [order, comp, rect, dy, leader, images]
\* after the positions from..Len(order0) of the original order.
\* (mutant) the leader pointer is kept when its item is erased
LeaderAfterErase_Kept(leader, id) == leader
\* m_pSelectionLeader after the item id was erased.
LeaderAfterErase(leader, id) == IF leader = id THEN NullItem ELSE leader

RECURSIVE RemoveLoop(_, _, _, _)
RemoveLoop(order0, to_remove, pos, acc) ==
    IF pos > Len(order0) THEN acc
    ELSE LET id == order0[pos]
         IN  IF id \notin to_remove
             THEN \* keeping this page
                  LET c == [acc.comp[id] EXCEPT !.y = @ + acc.dy]
                  IN  RemoveLoop(order0, to_remove, pos + 1,
                          [acc EXCEPT !.order = Append(@, id),
                                      !.comp = [@ EXCEPT ![id] = c],
                                      !.rect = updateSceneRect(c, @)])
             ELSE \* removing this page
                  RemoveLoop(order0, to_remove, pos + 1,
                      [acc EXCEPT !.dy = @ - (acc.comp[id].h + SPACING),
                                  !.leader = LeaderAfterErase(@, id),
                                  !.images = IF SubPage(id) \in {LEFT_PAGE, RIGHT_PAGE}
                                             THEN @ \cup {ImageOf(id)} ELSE @])

\* PageIdMutator over the remaining pages of the images to singularize.
\* (mutant) the remaining half keeps its sub-page
Singular_Keep(id, images) == id
Singular(id, images) ==
    IF ImageOf(id) \in images THEN Pid(ImageOf(id), SINGLE_PAGE) ELSE id

removePages(to_remove) ==
    LET done == RemoveLoop(m_itemsInOrder, to_remove, 1,
                    [order |-> <<>>, comp |-> composite, rect |-> NullRect, dy |-> 0,
                     leader |-> m_pSelectionLeader, images |-> {}])
        kept == Range(done.order)
        \* the item that becomes id: the one renamed to it, or id itself
        Old(id) == CHOOSE old \in kept : Singular(old, done.images) = id
        ids1 == {Singular(id, done.images) : id \in kept}
        Rename(s) == [k \in 1..Len(s) |-> Singular(s[k], done.images)]
    IN  /\ m_itemsInOrder' = Rename(done.order)
        /\ m_selectedThenUnselected' =
               Rename(SelectSeq(m_selectedThenUnselected, LAMBDA id : id \in kept))
        /\ flags' = [id \in ids1 |-> flags[Old(id)]]
        /\ pageNum' = [id \in ids1 |-> pageNum[Old(id)]]
        /\ composite' = [id \in ids1 |-> done.comp[Old(id)]]
        /\ m_pSelectionLeader' = IF done.leader = NullItem THEN NullItem
                                 ELSE Singular(done.leader, done.images)
        /\ m_sceneRect' = done.rect
        /\ sceneRect' = CommittedRect(done.rect)
        /\ signals' = <<>>
        /\ lastOp' = "removePages"
        /\ UNCHANGED <<m_ptrOrderProvider, crashed>>

\* removePages() is called with pages of the store; with both halves of an
\* image or with one of them.
RemovePages ==
    /\ ~crashed
    /\ \E to_remove \in SUBSET Range(m_itemsInOrder) : removePages(to_remove)

\* ---------------------------------------------------------------- system
Next ==
    \/ Reset /\ Settled
    \/ InvalidateThumbnail /\ Settled
    \/ InvalidateAllThumbnails /\ Settled
    \/ SetSelection /\ Settled
    \/ Insert /\ Settled
    \/ RemovePages /\ Settled
    \/ ClickNoModifiers /\ Settled
    \/ ClickWithControl /\ Settled
    \/ ClickWithShift /\ Settled

Spec == Init /\ [][Next]_vars

\* ------------------------------------------------- the click specification
\* A strip of NumClickPages single pages, reset once (with or without an
\* order provider), then clicked, selected programmatically and pruned.
ClickPages == [i \in 1..NumClickPages |-> Pid(i, SINGLE_PAGE)]

ResetClicks ==
    /\ m_itemsInOrder = <<>>
    /\ ResetTo({ClickPages}, Providers)

NextClicks ==
    \/ ResetClicks /\ Settled
    \/ RemovePages /\ Settled
    \/ SetSelectionOf(Range(ClickPages)) /\ Settled
    \/ ClickNoModifiers /\ Settled
    \/ ClickWithControl /\ Settled
    \/ ClickWithShift /\ Settled

SpecClicks == Init /\ [][NextClicks]_vars

\* ------------------------------------------------- the reset specification
\* Page lists reset in any order, with or without an order provider, between
\* programmatic selections, ctrl-clicks and removals.
ResetAny == ResetTo(PageLists, Providers)

NextReset ==
    \/ ResetAny /\ Settled
    \/ SetSelection /\ Settled
    \/ RemovePages /\ Settled
    \/ ClickWithControl /\ Settled

SpecReset == Init /\ [][NextReset]_vars

\* ------------------------------------------------ the insert specification
\* Page lists reset, with or without an order provider, then grown by
\* insert() and pruned by removePages().
InsertAny == InsertBelow(MaxInsertPageNum)

NextInsert ==
    \/ ResetAny /\ Settled
    \/ InsertAny /\ Settled
    \/ RemovePages /\ Settled

SpecInsert == Init /\ [][NextInsert]_vars

\* -------------------------------------------- the invalidate specification
\* Page lists reset, with or without an order provider, some pages selected
\* by ctrl-clicks, and thumbnails invalidated one by one or all at once.
NextInvalidate ==
    \/ ResetAny /\ Settled
    \/ ClickWithControl /\ Settled
    \/ InvalidateThumbnail /\ Settled
    \/ InvalidateAllThumbnails /\ Settled

SpecInvalidate == Init /\ [][NextInvalidate]_vars

\* ------------------------------------------------- the order specification
\* Page lists reset with or without an order provider whose answers never
\* change, grown by insert() and invalidated.
NextOrder ==
    \/ ResetAny /\ Settled
    \/ InsertAny /\ Settled
    \/ InvalidateThumbnail /\ Settled
    \/ InvalidateAllThumbnails /\ Settled

SpecOrder == Init /\ [][NextOrder]_vars

\* ------------------------------------------------ the layout specification
\* The empty sequence is reset to a page list with visuals of two sizes and
\* nothing selected, with or without an order provider whose answers never
\* change; pages are then inserted, removed and invalidated with visuals of
\* either size.
ResetFromEmpty(providers, cur_pages) ==
    /\ m_itemsInOrder = <<>>
    /\ \E pages \in PageLists, order_provider \in providers :
           \E cur_page \in {NullPageId} \cup (Range(pages) \cap cur_pages),
              vis \in [Range(pages) -> LayoutVisuals] :
               reset(pages, cur_page, RESET_SELECTION, order_provider, vis)

ResetLayout == ResetFromEmpty(Providers, {})

InsertLayout ==
    /\ ~crashed
    /\ m_itemsInOrder # <<>> =>
           pageNum[m_itemsInOrder[Len(m_itemsInOrder)]] < MaxInsertPageNum
    /\ \E page_id \in PageIds \ Range(m_itemsInOrder),
          before_or_after \in {BEFORE, AFTER},
          image \in Images \cup {NullImage},
          v \in LayoutVisuals :
        /\ Consistent(Range(m_itemsInOrder) \cup {page_id})
        /\ insert(page_id, before_or_after, image, v)

InvalidateThumbnailLayout ==
    /\ ~crashed
    /\ \E page_id \in PageIds, v \in LayoutVisuals : invalidateThumbnail(page_id, v)

InvalidateAllThumbnailsLayout ==
    /\ ~crashed
    /\ \E vis \in [Range(m_itemsInOrder) -> LayoutVisuals] :
           invalidateAllThumbnails(vis)

NextLayout ==
    \/ ResetLayout /\ Settled
    \/ InsertLayout /\ Settled
    \/ RemovePages /\ Settled
    \/ InvalidateThumbnailLayout /\ Settled
    \/ InvalidateAllThumbnailsLayout /\ Settled

SpecLayout == Init /\ [][NextLayout]_vars

\* ------------------------------------------------- the moves specification
\* The empty sequence is reset to a page list with visuals of two sizes and
\* any page as the leader; thumbnails are then invalidated one by one with
\* visuals of either size while the order provider's answers change, so
\* that an invalidated page may have to move.
ResetMoves == ResetFromEmpty(ChangingProviders, PageIds)

\* The data the provider compares by changes: its answers are reversed.
OrderChanges ==
    /\ ~crashed
    /\ m_ptrOrderProvider # NoProvider
    /\ m_ptrOrderProvider' =
           IF m_ptrOrderProvider = "imageDesc" THEN "imageAsc" ELSE "imageDesc"
    /\ signals' = <<>>
    /\ lastOp' = "orderChanges"
    /\ UNCHANGED <<m_itemsInOrder, m_selectedThenUnselected, flags, pageNum,
                   composite, m_pSelectionLeader, m_sceneRect, sceneRect, crashed>>

NextMoves ==
    \/ ResetMoves /\ Settled
    \/ InvalidateThumbnailLayout /\ Settled
    \/ OrderChanges /\ Settled

SpecMoves == Init /\ [][NextMoves]_vars

\* ------------------------------------------------ the canvas specification
\* Page lists reset, with or without an order provider, and thumbnails
\* invalidated one by one or all at once, the invalidations taken statement
\* by statement where they attach and detach visuals.
\* invalidateThumbnail, lines 552-566: an unknown id returns; otherwise the
\* new composite is created, off the canvas.
InvalidateThumbnailEnter ==
    /\ pc = Idle
    /\ ~crashed
    /\ \E page_id \in PageIds, v \in Visuals :
           IF page_id \notin Range(m_itemsInOrder)
           THEN invalidateThumbnail(page_id, v) /\ Settled
           ELSE /\ pc' = [op |-> "invalidateThumbnail", line |-> 568,
                          args |-> <<page_id, v>>]
                /\ UNCHANGED <<m_itemsInOrder, m_selectedThenUnselected, flags,
                               pageNum, composite, m_pSelectionLeader,
                               m_ptrOrderProvider, m_sceneRect, sceneRect,
                               signals, lastOp, crashed, canvas>>

\* invalidateThumbnail, line 568: m_graphicsScene.addItem(new composite).
InvalidateThumbnailAddItem ==
    /\ pc.op = "invalidateThumbnail"
    /\ pc.line = 568
    /\ canvas' = canvas \cup {Visual(pc.args[1], TRUE)}
    /\ pc' = [pc EXCEPT !.line = 569]
    /\ UNCHANGED <<m_itemsInOrder, m_selectedThenUnselected, flags, pageNum,
                   composite, m_pSelectionLeader, m_ptrOrderProvider,
                   m_sceneRect, sceneRect, signals, lastOp, crashed>>

\* invalidateThumbnail, lines 569-648: the record takes the new composite,
\* the old one is deleted, which takes it off the canvas, and the rest of
\* the operation runs.
InvalidateThumbnailDeleteOld ==
    /\ pc.op = "invalidateThumbnail"
    /\ pc.line = 569
    /\ invalidateThumbnail(pc.args[1], pc.args[2])
    /\ canvas' = (canvas \ {Visual(pc.args[1], FALSE), Visual(pc.args[1], TRUE)})
                     \cup {Visual(pc.args[1], FALSE)}
    /\ pc' = Idle

\* invalidateAllThumbnails, lines 653-667: the scene rectangle is zeroed and
\* the display order sorted; args holds the new visuals and the position
\* of the loop.
InvalidateAllThumbnailsEnter ==
    /\ pc = Idle
    /\ ~crashed
    /\ \E vis \in [Range(m_itemsInOrder) -> Visuals] :
           pc' = [op |-> "invalidateAllThumbnails", line |-> 669, args |-> <<vis, 1>>]
    /\ m_sceneRect' = NullRect
    /\ m_itemsInOrder' = IF m_ptrOrderProvider # NoProvider
                         THEN StableSort(m_ptrOrderProvider, m_itemsInOrder)
                         ELSE m_itemsInOrder
    /\ UNCHANGED <<m_selectedThenUnselected, flags, pageNum, composite,
                   m_pSelectionLeader, m_ptrOrderProvider, sceneRect, signals,
                   lastOp, crashed, canvas>>

\* The new composite of the page at position i of the loop, at its offset.
LoopComposite(vis, i) ==
    [NewComposite(vis[m_itemsInOrder[i]]) EXCEPT
        !.y = IF i = 1 THEN 0 ELSE Below(composite[m_itemsInOrder[i - 1]])]

\* invalidateAllThumbnails, lines 669-681: the new composite is created,
\* placed and united into the scene rectangle, and the old one is deleted.
InvalidateAllThumbnailsDeleteOld ==
    /\ pc.op = "invalidateAllThumbnails"
    /\ pc.line = 669
    /\ pc.args[2] <= Len(m_itemsInOrder)
    /\ m_sceneRect' = updateSceneRect(LoopComposite(pc.args[1], pc.args[2]),
                                      m_sceneRect)
    /\ canvas' = canvas \ {Visual(m_itemsInOrder[pc.args[2]], FALSE)}
    /\ pc' = [pc EXCEPT !.line = 683]
    /\ UNCHANGED <<m_itemsInOrder, m_selectedThenUnselected, flags, pageNum,
                   composite, m_pSelectionLeader, m_ptrOrderProvider, sceneRect,
                   signals, lastOp, crashed>>

\* invalidateAllThumbnails, lines 683-684: the record takes the new
\* composite, which is added to the canvas; the loop moves on.
InvalidateAllThumbnailsAddItem ==
    /\ pc.op = "invalidateAllThumbnails"
    /\ pc.line = 683
    /\ composite' = [composite EXCEPT ![m_itemsInOrder[pc.args[2]]] =
                                          LoopComposite(pc.args[1], pc.args[2])]
    /\ canvas' = canvas \cup {Visual(m_itemsInOrder[pc.args[2]], FALSE)}
    /\ pc' = [pc EXCEPT !.line = 669, !.args = <<pc.args[1], pc.args[2] + 1>>]
    /\ UNCHANGED <<m_itemsInOrder, m_selectedThenUnselected, flags, pageNum,
                   m_pSelectionLeader, m_ptrOrderProvider, m_sceneRect, sceneRect,
                   signals, lastOp, crashed>>

\* invalidateAllThumbnails, line 687: the loop is over, commitSceneRect().
InvalidateAllThumbnailsCommit ==
    /\ pc.op = "invalidateAllThumbnails"
    /\ pc.line = 669
    /\ pc.args[2] > Len(m_itemsInOrder)
    /\ sceneRect' = CommittedRect(m_sceneRect)
    /\ signals' = <<>>
    /\ lastOp' = "invalidateAllThumbnails"
    /\ pc' = Idle
    /\ UNCHANGED <<m_itemsInOrder, m_selectedThenUnselected, flags, pageNum,
                   composite, m_pSelectionLeader, m_ptrOrderProvider, m_sceneRect,
                   crashed, canvas>>

NextCanvas ==
    \/ ResetAny /\ Settled
    \/ InvalidateThumbnailEnter
    \/ InvalidateThumbnailAddItem
    \/ InvalidateThumbnailDeleteOld
    \/ InvalidateAllThumbnailsEnter
    \/ InvalidateAllThumbnailsDeleteOld
    \/ InvalidateAllThumbnailsAddItem
    \/ InvalidateAllThumbnailsCommit

SpecCanvas == Init /\ [][NextCanvas]_vars

\* ---------------------------------------------------------------- claims
\* The ids of the items whose selected flag is set.
Selected == {id \in DOMAIN flags : flags[id].isSelected}
Flagged == {id \in DOMAIN flags : flags[id].isSelectionLeader}

\* C1: in every reachable state, if a selection leader is set then the
\* leader is an item of the store whose selected flag is true.
C1_LeaderIsSelected ==
    m_pSelectionLeader # NullItem =>
        /\ m_pSelectionLeader \in DOMAIN flags
        /\ flags[m_pSelectionLeader].isSelected

\* A leader chosen by the ctrl-click that unselected the previous leader.
C1_Witness ==
    /\ lastOp = "ctrl"
    /\ m_pSelectionLeader # NullItem
    /\ Len(signals) = 1
    /\ AVOID_SCROLLING_TO \in signals[1].flags

\* C2: after every operation the selected-then-unselected index is
\* partitioned (no unselected item precedes a selected one), and
\* selectedItems() is exactly the set of ids of the selected items.
C2_Partitioned ==
    /\ \A i, j \in 1..Len(m_selectedThenUnselected) :
           (i < j /\ flags[m_selectedThenUnselected[j]].isSelected)
               => flags[m_selectedThenUnselected[i]].isSelected
    /\ selectedItems = Selected

\* A ctrl-click has unselected one of several selected items, and selected
\* and unselected items are both present.
C2_Witness ==
    /\ lastOp = "ctrl"
    /\ signals = <<>>
    /\ ~crashed
    /\ Selected # {}
    /\ Selected # DOMAIN flags

\* The position of an item in the display order.
PosOf(id) == IndexOf(m_itemsInOrder, id)
Dist(a, b) == IF a > b THEN a - b ELSE b - a

\* C3: a plain click on an item leaves exactly that item selected, makes it
\* the selection leader and emits exactly one notification.
C3_PlainClick ==
    [][\A id \in Range(m_itemsInOrder) :
          (~crashed /\ selectItemNoModifiers(id, "plain")) =>
              /\ Selected' = {id}
              /\ m_pSelectionLeader' = id
              /\ Len(signals') = 1
              /\ signals'[1].page = id]_vars

\* A plain click in a strip of several items has left one item selected.
C3_Witness ==
    /\ lastOp = "plain"
    /\ Len(signals) = 1
    /\ Cardinality(DOMAIN flags) >= 2
    /\ Selected = {signals[1].page}
    /\ m_pSelectionLeader = signals[1].page

\* C4 (as stated): the notification of a plain click carries the redundant
\* flag exactly when the clicked item was the leader and the only selected
\* item before the click.
C4_RedundantIffLeaderAndOnly ==
    [][\A id \in Range(m_itemsInOrder) :
          (~crashed /\ selectItemNoModifiers(id, "plain")) =>
              (REDUNDANT_SELECTION \in signals'[1].flags
                  <=> (m_pSelectionLeader = id /\ Selected = {id}))]_vars

\* C4 (amended): the notification of a plain click carries the redundant
\* flag exactly when the clicked item was the selection leader before the
\* click, whatever else was selected.
C4_RedundantIffLeader ==
    [][\A id \in Range(m_itemsInOrder) :
          (~crashed /\ selectItemNoModifiers(id, "plain")) =>
              (REDUNDANT_SELECTION \in signals'[1].flags
                  <=> m_pSelectionLeader = id)]_vars

\* A plain click on the leader has been reported as redundant.
C4_Witness ==
    /\ lastOp = "plain"
    /\ Len(signals) = 1
    /\ REDUNDANT_SELECTION \in signals[1].flags
    /\ m_pSelectionLeader = signals[1].page

\* C5: a ctrl-click on an unselected item selects it and makes it the
\* leader; the previous leader, if any, stays selected but is no longer the
\* leader; no other selected flag changes; one notification for the clicked
\* item is emitted.
C5_CtrlSelect ==
    [][\A id \in Range(m_itemsInOrder) :
          (~crashed /\ ~flags[id].isSelected /\ selectItemWithControl(id)) =>
              /\ flags'[id].isSelected
              /\ m_pSelectionLeader' = id
              /\ Flagged' = {id}
              /\ m_pSelectionLeader # NullItem =>
                     flags'[m_pSelectionLeader].isSelected
              /\ \A other \in DOMAIN flags \ {id} :
                     flags'[other].isSelected = flags[other].isSelected
              /\ Len(signals') = 1
              /\ signals'[1].page = id]_vars

\* A ctrl-click has added an item to a selection and made it the leader.
C5_Witness ==
    /\ lastOp = "ctrl"
    /\ Len(signals) = 1
    /\ signals[1].flags = {SELECTED_BY_USER}
    /\ m_pSelectionLeader = signals[1].page
    /\ Cardinality(Selected) >= 2

\* C6: a ctrl-click on the leader while another item is selected unselects
\* it; the new leader is the remaining selected item nearest in display
\* order, the one k positions before winning over the one k positions
\* after; the notification is for the new leader and carries the
\* avoid-scrolling flag.
C6_CtrlUnselectLeader ==
    [][\A id \in Range(m_itemsInOrder) :
          (/\ ~crashed
           /\ m_pSelectionLeader = id
           /\ Cardinality(Selected) >= 2
           /\ selectItemWithControl(id)) =>
              LET rest == Selected \ {id}
                  new == m_pSelectionLeader'
              IN  /\ ~flags'[id].isSelected
                  /\ Selected' = rest
                  /\ new \in rest
                  /\ Flagged' = {new}
                  /\ \A q \in rest :
                         \/ Dist(PosOf(q), PosOf(id)) > Dist(PosOf(new), PosOf(id))
                         \/ q = new
                         \/ /\ Dist(PosOf(q), PosOf(id)) = Dist(PosOf(new), PosOf(id))
                            /\ PosOf(new) < PosOf(id)
                  /\ Len(signals') = 1
                  /\ signals'[1].page = new
                  /\ AVOID_SCROLLING_TO \in signals'[1].flags]_vars

\* The leader between two selected neighbours was ctrl-clicked and the
\* neighbour before it became the leader.
C6_Witness ==
    /\ lastOp = "ctrl"
    /\ Len(signals) = 1
    /\ AVOID_SCROLLING_TO \in signals[1].flags
    /\ Cardinality(Selected) >= 2
    /\ m_pSelectionLeader # NullItem
    /\ \E i \in 1..Len(m_itemsInOrder) - 2 :
           /\ m_itemsInOrder[i] = m_pSelectionLeader
           /\ ~flags[m_itemsInOrder[i + 1]].isSelected
           /\ flags[m_itemsInOrder[i + 2]].isSelected

\* C7 (as stated): a ctrl-click on the only selected item changes no flag
\* and not the leader, and emits one notification flagged redundant.
C7_CtrlOnlySelected ==
    [][\A id \in Range(m_itemsInOrder) :
          (~crashed /\ Selected = {id} /\ selectItemWithControl(id)) =>
              /\ ~crashed'
              /\ flags' = flags
              /\ m_pSelectionLeader' = m_pSelectionLeader
              /\ Len(signals') = 1
              /\ REDUNDANT_SELECTION \in signals'[1].flags]_vars

\* C8: a shift-click on c while a leader L # c exists selects every item
\* whose display position lies between L and c inclusive, leaves the
\* selected flag of every item outside that range as it was, and makes c
\* the leader; L stays selected and is no longer the leader.
C8_ShiftRange ==
    [][\A id \in Range(m_itemsInOrder) :
          (/\ ~crashed
           /\ m_pSelectionLeader # NullItem
           /\ m_pSelectionLeader # id
           /\ selectItemWithShift(id)) =>
              LET lo == Min(PosOf(m_pSelectionLeader), PosOf(id))
                  hi == Max(PosOf(m_pSelectionLeader), PosOf(id))
              IN  /\ \A i \in 1..Len(m_itemsInOrder) :
                         flags'[m_itemsInOrder[i]].isSelected =
                             IF lo <= i /\ i <= hi THEN TRUE
                             ELSE flags[m_itemsInOrder[i]].isSelected
                  /\ m_pSelectionLeader' = id
                  /\ Flagged' = {id}
                  /\ flags'[m_pSelectionLeader].isSelected]_vars

\* A shift-click has selected a range and left an item outside it
\* unselected.
C8_Witness ==
    /\ lastOp = "shift"
    /\ Len(signals) = 1
    /\ m_pSelectionLeader = signals[1].page
    /\ Cardinality(Selected) >= 2
    /\ Selected # DOMAIN flags

\* C9 (as stated): a shift-click on the selection leader changes no
\* selected flag and emits a notification flagged redundant.
C9_ShiftOnLeader ==
    [][\A id \in Range(m_itemsInOrder) :
          (~crashed /\ m_pSelectionLeader = id /\ selectItemWithShift(id)) =>
              /\ Selected' = Selected
              /\ Len(signals') = 1
              /\ REDUNDANT_SELECTION \in signals'[1].flags]_vars

\* C10 (as stated): without a selection leader, a ctrl-click or a
\* shift-click on an item ends as a plain click on it does: that item alone
\* selected, that item the leader, one notification for it flagged as
\* selected by the user.
C10_NoLeaderFallback ==
    [][\A id \in Range(m_itemsInOrder) :
          (/\ ~crashed
           /\ m_pSelectionLeader = NullItem
           /\ selectItemWithControl(id) \/ selectItemWithShift(id)) =>
              /\ ~crashed'
              /\ Selected' = {id}
              /\ m_pSelectionLeader' = id
              /\ signals' = <<Signal(id, id, {SELECTED_BY_USER})>>]_vars

\* C11 (as stated): after every operation, a non-empty store has exactly
\* one selection leader.
C11_ExactlyOneLeader ==
    m_itemsInOrder # <<>> =>
        /\ m_pSelectionLeader # NullItem
        /\ Flagged = {m_pSelectionLeader}

\* C12 (as stated): reset(pages, KEEP_SELECTION) with a list that holds
\* every selected id leaves selectedItems() as it was before the reset.
C12_KeepSelectionRoundTrip ==
    [][lastOp' = "reset" =>
       \A pages \in PageLists, cur_page \in PageIds \cup {NullPageId},
          order_provider \in Providers :
          \A vis \in [Range(pages) -> Visuals] :
              (/\ selectedItems \subseteq Range(pages)
               /\ reset(pages, cur_page, KEEP_SELECTION, order_provider, vis))
                  => selectedItems' = selectedItems]_vars

\* C12 (amended): reset(pages, KEEP_SELECTION) with a list that holds every
\* selected id leaves selectedItems() as it was before the reset if some
\* page was selected; if none was, the snapshot's current page is selected
\* when the list holds it, and nothing otherwise.
C12_KeepSelectionOrCurrentPage ==
    [][lastOp' = "reset" =>
       \A pages \in PageLists, cur_page \in PageIds \cup {NullPageId},
          order_provider \in Providers :
          \A vis \in [Range(pages) -> Visuals] :
              (/\ selectedItems \subseteq Range(pages)
               /\ reset(pages, cur_page, KEEP_SELECTION, order_provider, vis))
                  => selectedItems' =
                         IF selectedItems # {} THEN selectedItems
                         ELSE {cur_page} \cap Range(pages)]_vars

\* A reset has kept a selection of several pages.
C12_Witness ==
    /\ lastOp = "reset"
    /\ Cardinality(selectedItems) >= 2

\* C13 (as stated): after reset the leader is the preserved leader
\* (KEEP_SELECTION, and the list holds it); otherwise a page that was
\* selected before the reset and is in the list; otherwise the current
\* page if the list holds it; otherwise none.  An empty list leaves an
\* empty store, no leader and no notification.
C13_ResetLeaderPreference ==
    [][lastOp' = "reset" =>
       \A pages \in PageLists, cur_page \in PageIds \cup {NullPageId},
          selection_action \in {KEEP_SELECTION, RESET_SELECTION},
          order_provider \in Providers :
          \A vis \in [Range(pages) -> Visuals] :
              (/\ reset(pages, cur_page, selection_action, order_provider, vis))
                  => LET ids == Range(pages)
                         was_selected == Selected \cap ids
                     IN  /\ IF /\ selection_action = KEEP_SELECTION
                               /\ m_pSelectionLeader \in ids
                            THEN m_pSelectionLeader' = m_pSelectionLeader
                            ELSE IF was_selected # {}
                            THEN m_pSelectionLeader' \in was_selected
                            ELSE IF cur_page \in ids
                            THEN m_pSelectionLeader' = cur_page
                            ELSE m_pSelectionLeader' = NullItem
                         /\ pages = <<>> =>
                                /\ m_itemsInOrder' = <<>>
                                /\ m_pSelectionLeader' = NullItem
                                /\ signals' = <<>>]_vars

\* C13 (amended): as stated, except that the pages selected before the
\* reset count only under KEEP_SELECTION; under RESET_SELECTION the leader
\* is the current page if the list holds it, and none otherwise.
C13_ResetLeaderPreferenceKept ==
    [][lastOp' = "reset" =>
       \A pages \in PageLists, cur_page \in PageIds \cup {NullPageId},
          selection_action \in {KEEP_SELECTION, RESET_SELECTION},
          order_provider \in Providers :
          \A vis \in [Range(pages) -> Visuals] :
              (/\ reset(pages, cur_page, selection_action, order_provider, vis))
                  => LET ids == Range(pages)
                         was_selected == IF selection_action = KEEP_SELECTION
                                         THEN Selected \cap ids ELSE {}
                     IN  /\ IF /\ selection_action = KEEP_SELECTION
                               /\ m_pSelectionLeader \in ids
                            THEN m_pSelectionLeader' = m_pSelectionLeader
                            ELSE IF was_selected # {}
                            THEN m_pSelectionLeader' \in was_selected
                            ELSE IF cur_page \in ids
                            THEN m_pSelectionLeader' = cur_page
                            ELSE m_pSelectionLeader' = NullItem
                         /\ pages = <<>> =>
                                /\ m_itemsInOrder' = <<>>
                                /\ m_pSelectionLeader' = NullItem
                                /\ signals' = <<>>]_vars

\* A reset has kept several selected pages and the leader among them.
C13_Witness ==
    /\ lastOp = "reset"
    /\ Cardinality(Selected) >= 2
    /\ m_pSelectionLeader # NullItem
    /\ Len(signals) = 1
    /\ signals[1].page = m_pSelectionLeader

\* C14 (as stated): every notification carries the page of the item that
\* is the selection leader when it is emitted.
C14_SignalCarriesLeader ==
    \A i \in 1..Len(signals) : signals[i].page = m_pSelectionLeader

\* The pages of the store that reference an image, and the reference page
\* of an insert: the one with the least id (single, then left, then right).
PagesOf(image) == {id \in Range(m_itemsInOrder) : ImageOf(id) = image}
ReferencePage(image) ==
    CHOOSE id \in PagesOf(image) : \A other \in PagesOf(image) : id <= other

\* C15: without an order provider, insert(X, AFTER, image) with a page of
\* that image in the store puts X right after the reference page and the
\* pages of the same image that directly follow it; insert(X, BEFORE,
\* image) puts X right before the reference page; the display order of the
\* pages already there does not change.
C15_InsertPosition ==
    [][lastOp' = "insert" =>
       \A page_id \in PageIds \ Range(m_itemsInOrder),
          before_or_after \in {BEFORE, AFTER}, image \in Images, v \in Visuals :
           (/\ m_ptrOrderProvider = NoProvider
            /\ PagesOf(image) # {}
            /\ insert(page_id, before_or_after, image, v))
               => LET r == PosOf(ReferencePage(image))
                      new == IndexOf(m_itemsInOrder', page_id)
                  IN  /\ Remove(m_itemsInOrder', page_id) = m_itemsInOrder
                      /\ before_or_after = BEFORE => new = r
                      /\ before_or_after = AFTER =>
                             /\ new > r
                             /\ \A j \in (r + 1)..(new - 1) :
                                    ImageOf(m_itemsInOrder[j]) = image
                             /\ new <= Len(m_itemsInOrder) =>
                                    ImageOf(m_itemsInOrder[new]) # image]_vars

\* A page was inserted behind the left and the right page of an image.
C15_Witness ==
    /\ lastOp = "insert"
    /\ m_ptrOrderProvider = NoProvider
    /\ \E i \in 1..Len(m_itemsInOrder) - 2 :
           /\ SubPage(m_itemsInOrder[i]) = LEFT_PAGE
           /\ SubPage(m_itemsInOrder[i + 1]) = RIGHT_PAGE
           /\ ImageOf(m_itemsInOrder[i]) = ImageOf(m_itemsInOrder[i + 1])
           /\ \A id \in Range(m_itemsInOrder) \ {m_itemsInOrder[i + 2]} :
                  pageNum[m_itemsInOrder[i + 2]] > pageNum[id]

\* C16 (as stated): every insert gives the new page a page number strictly
\* greater than the page number of every page already in the store, so
\* that no two pages of the store share a page number.
C16_PageNumIncreasing ==
    [][lastOp' = "insert" =>
       \A page_id \in Range(m_itemsInOrder') \ Range(m_itemsInOrder) :
           /\ \A id \in Range(m_itemsInOrder) : pageNum'[page_id] > pageNum[id]
           /\ \A id \in Range(m_itemsInOrder) : pageNum'[id] = pageNum[id]]_vars

\* C17: insert with a reference image that no page of the store references,
\* other than the appending insert(X, BEFORE, null image), is aborted: the
\* pages, their order, positions and flags, the leader and the scene
\* rectangle are unchanged, and nothing is emitted.
C17_InsertAborted ==
    [][lastOp' = "insert" =>
       \A page_id \in PageIds, before_or_after \in {BEFORE, AFTER},
          image \in Images \cup {NullImage}, v \in Visuals :
           (/\ PagesOf(image) = {}
            /\ ~(before_or_after = BEFORE /\ image = NullImage)
            /\ insert(page_id, before_or_after, image, v))
               => /\ UNCHANGED <<m_itemsInOrder, m_selectedThenUnselected, flags,
                                 pageNum, composite, m_pSelectionLeader,
                                 m_sceneRect, sceneRect>>
                  /\ signals' = <<>>]_vars

\* An insert left a store of one page, the selected leader, as it was (a
\* page that insert() adds is not selected).
C17_Witness ==
    /\ lastOp = "insert"
    /\ Len(m_itemsInOrder) = 1
    /\ m_pSelectionLeader = m_itemsInOrder[1]
    /\ flags[m_itemsInOrder[1]].isSelected

\* C18: after removePages, for every removed left or right page, a page of
\* the same image that remains is a single page; the pages of the images
\* from which nothing was removed keep their ids.
C18_Singularized ==
    [][lastOp' = "removePages" =>
       \A to_remove \in SUBSET Range(m_itemsInOrder) :
           removePages(to_remove) =>
               LET halved == {ImageOf(id) : id \in
                                 {r \in to_remove : SubPage(r) \in {LEFT_PAGE, RIGHT_PAGE}}}
                   touched == {ImageOf(id) : id \in to_remove}
                   Untouched(ids) == {id \in ids : ImageOf(id) \notin touched}
               IN  /\ \A id \in Range(m_itemsInOrder') :
                          ImageOf(id) \in halved => SubPage(id) = SINGLE_PAGE
                   /\ Untouched(Range(m_itemsInOrder')) = Untouched(Range(m_itemsInOrder))
                   /\ \A id \in Untouched(Range(m_itemsInOrder)) :
                          /\ pageNum'[id] = pageNum[id]
                          /\ flags'[id] = flags[id]]_vars

\* Of three pages, a left or right page was removed and two single pages
\* remain (three pages are the two halves of one image and a single page).
C18_Witness ==
    /\ lastOp = "removePages"
    /\ Len(m_itemsInOrder) = 2
    /\ \A id \in Range(m_itemsInOrder) : SubPage(id) = SINGLE_PAGE
    /\ \E id \in Range(m_itemsInOrder) : pageNum[id] = 2

\* C19: removePages erases exactly the pages of the given set and keeps the
\* display order and the selected flags of the others; a removed leader
\* leaves no leader and no page is promoted; a leader that stays is
\* unchanged.
C19_RemoveFrame ==
    [][lastOp' = "removePages" =>
       \A to_remove \in SUBSET Range(m_itemsInOrder) :
           removePages(to_remove) =>
               LET kept == SelectSeq(m_itemsInOrder, LAMBDA id : id \notin to_remove)
               IN  /\ Len(m_itemsInOrder') = Len(kept)
                   /\ \A i \in 1..Len(kept) :
                          /\ ImageOf(m_itemsInOrder'[i]) = ImageOf(kept[i])
                          /\ \/ m_itemsInOrder'[i] = kept[i]
                             \/ SubPage(m_itemsInOrder'[i]) = SINGLE_PAGE
                          /\ flags'[m_itemsInOrder'[i]].isSelected
                                 = flags[kept[i]].isSelected
                   /\ IF m_pSelectionLeader \in to_remove \/ m_pSelectionLeader = NullItem
                      THEN m_pSelectionLeader' = NullItem /\ Flagged' = {}
                      ELSE /\ m_pSelectionLeader' # NullItem
                           /\ Flagged' = {m_pSelectionLeader'}
                           /\ IndexOf(m_itemsInOrder', m_pSelectionLeader')
                                  = IndexOf(kept, m_pSelectionLeader)]_vars

\* The leader was removed while another selected page stayed.
C19_Witness ==
    /\ lastOp = "removePages"
    /\ m_pSelectionLeader = NullItem
    /\ Flagged = {}
    /\ Selected # {}

\* C20: invalidateThumbnail and invalidateAllThumbnails leave the set of
\* pages, every selected flag and the leader unchanged; without an order
\* provider they leave the display order unchanged as well;
\* invalidateThumbnail for an id that is not in the store changes nothing.
C20_InvalidateFrame ==
    [][/\ lastOp' = "invalidateThumbnail" =>
           \A page_id \in PageIds, v \in Visuals :
               invalidateThumbnail(page_id, v) =>
                   /\ Range(m_itemsInOrder') = Range(m_itemsInOrder)
                   /\ flags' = flags
                   /\ m_pSelectionLeader' = m_pSelectionLeader
                   /\ m_ptrOrderProvider = NoProvider =>
                          m_itemsInOrder' = m_itemsInOrder
                   /\ page_id \notin Range(m_itemsInOrder) =>
                          /\ UNCHANGED <<m_itemsInOrder, m_selectedThenUnselected,
                                         flags, pageNum, composite,
                                         m_pSelectionLeader, m_ptrOrderProvider,
                                         m_sceneRect, sceneRect>>
                          /\ signals' = <<>>
       /\ lastOp' = "invalidateAllThumbnails" =>
           \A vis \in [Range(m_itemsInOrder) -> Visuals] :
               invalidateAllThumbnails(vis) =>
                   /\ Range(m_itemsInOrder') = Range(m_itemsInOrder)
                   /\ flags' = flags
                   /\ m_pSelectionLeader' = m_pSelectionLeader
                   /\ m_ptrOrderProvider = NoProvider =>
                          m_itemsInOrder' = m_itemsInOrder]_vars

\* A thumbnail of a strip of three pages, two of them selected, was
\* invalidated.
C20_Witness ==
    /\ lastOp = "invalidateThumbnail"
    /\ Len(m_itemsInOrder) = 3
    /\ Cardinality(Selected) = 2
    /\ m_pSelectionLeader # NullItem
    /\ m_ptrOrderProvider = NoProvider


\* The by-identity, in-order and selected-then-unselected indices hold the
\* same records, each once.
IndicesAgree ==
    /\ Range(m_itemsInOrder) = DOMAIN flags
    /\ Range(m_selectedThenUnselected) = DOMAIN flags
    /\ Len(m_itemsInOrder) = Cardinality(DOMAIN flags)
    /\ Len(m_selectedThenUnselected) = Cardinality(DOMAIN flags)
\* The operations that only write selected and leader flags.
FlagOps == {"plain", "ctrl", "shift", "setSelection"}

\* C21: before and after every operation the three indices contain the same
\* set of records and no id appears twice in any of them; an operation that
\* only changes selected or leader flags changes the membership of no index.
C21_IndicesAgree ==
    [][/\ IndicesAgree
       /\ IndicesAgree'
       /\ lastOp' \in FlagOps =>
              /\ DOMAIN flags' = DOMAIN flags
              /\ m_itemsInOrder' = m_itemsInOrder
              /\ Range(m_selectedThenUnselected') = Range(m_selectedThenUnselected)
      ]_vars

\* setSelection took the selection away from two other pages.
C21_Witness ==
    /\ lastOp = "setSelection"
    /\ Len(m_selectedThenUnselected) = 3
    /\ Cardinality(Selected) = 1
    /\ Len(signals) = 1
    /\ m_selectedThenUnselected[1] = signals[1].page

\* C22: after every completed operation at most one record has its
\* isSelectionLeader flag set, and a record has the flag set exactly when it
\* is the record m_pSelectionLeader refers to.
C22_OneLeaderFlag ==
    /\ Cardinality(Flagged) <= 1
    /\ \A id \in DOMAIN flags :
           flags[id].isSelectionLeader <=> (id = m_pSelectionLeader)
    /\ m_pSelectionLeader # NullItem => m_pSelectionLeader \in DOMAIN flags

\* setSelection moved the leadership to another page while others stayed
\* in the store.
C22_Witness ==
    /\ lastOp = "setSelection"
    /\ Len(signals) = 1
    /\ signals[1].flags = DEFAULT_SELECTION_FLAGS
    /\ Flagged = {signals[1].page}
    /\ Cardinality(DOMAIN flags) >= 2

\* C23: a ctrl-click on a selected item that is not the selection leader,
\* while other items are selected too, unselects that item only: the leader
\* and the flags of every other record stay as they were, the display order
\* is unchanged and no notification is emitted.
C23_CtrlUnselectNonLeader ==
    [][lastOp' = "ctrl" =>
       \A id \in Range(m_itemsInOrder) :
           (/\ ~crashed
            /\ flags[id].isSelected
            /\ m_pSelectionLeader # id
            /\ Cardinality(Selected) >= 2
            /\ selectItemWithControl(id)) =>
               /\ ~flags'[id].isSelected
               /\ ~flags'[id].isSelectionLeader
               /\ \A other \in DOMAIN flags \ {id} : flags'[other] = flags[other]
               /\ DOMAIN flags' = DOMAIN flags
               /\ m_pSelectionLeader' = m_pSelectionLeader
               /\ m_itemsInOrder' = m_itemsInOrder
               /\ signals' = <<>>
               /\ ~crashed']_vars

\* A ctrl-click emitted nothing and left a leader, another selected page
\* being possible only if the clicked page was not the leader.
C23_Witness ==
    /\ lastOp = "ctrl"
    /\ signals = <<>>
    /\ ~crashed
    /\ m_pSelectionLeader # NullItem
    /\ flags[m_pSelectionLeader].isSelectionLeader
    /\ Cardinality(DOMAIN flags \ Selected) >= 1

\* C30: setSelection(id) for an id of the store leaves exactly that page
\* selected, makes it the selection leader and emits one notification for
\* it, flagged REDUNDANT_SELECTION exactly when the page was the leader
\* already; for an id that is not in the store it changes nothing and emits
\* nothing.
C30_SetSelection ==
    [][lastOp' = "setSelection" =>
       \A page_id \in PageIds :
           (~crashed /\ setSelection(page_id)) =>
               IF page_id \in Range(m_itemsInOrder)
               THEN /\ Selected' = {page_id}
                    /\ Flagged' = {page_id}
                    /\ m_pSelectionLeader' = page_id
                    /\ DOMAIN flags' = DOMAIN flags
                    /\ m_itemsInOrder' = m_itemsInOrder
                    /\ Len(signals') = 1
                    /\ signals'[1].page = page_id
                    /\ signals'[1].item = page_id
                    /\ (REDUNDANT_SELECTION \in signals'[1].flags)
                           <=> (m_pSelectionLeader = page_id)
                    /\ signals'[1].flags \subseteq {REDUNDANT_SELECTION}
               ELSE /\ signals' = <<>>
                    /\ UNCHANGED <<m_itemsInOrder, m_selectedThenUnselected,
                                   flags, pageNum, composite, m_pSelectionLeader,
                                   m_ptrOrderProvider, m_sceneRect, sceneRect,
                                   crashed>>]_vars

\* setSelection on the leader dropped the other selected pages and reported
\* a redundant selection.
C30_Witness ==
    /\ lastOp = "setSelection"
    /\ Len(signals) = 1
    /\ REDUNDANT_SELECTION \in signals[1].flags
    /\ Selected = {m_pSelectionLeader}
    /\ m_selectedThenUnselected[1] = m_pSelectionLeader
    /\ Len(m_itemsInOrder) >= 2

\* C24: after every completed operation the visuals are stacked in display
\* order in a single column: every visual is at x = 0, the first at y = 0,
\* and each following one at the y of the previous one plus the previous
\* one's height plus SPACING.
C24_Stacked ==
    \A i \in 1..Len(m_itemsInOrder) :
        /\ composite[m_itemsInOrder[i]].x = 0
        /\ composite[m_itemsInOrder[i]].y =
               IF i = 1 THEN 0
               ELSE composite[m_itemsInOrder[i - 1]].y
                    + composite[m_itemsInOrder[i - 1]].h + SPACING

\* A page was removed from above two pages of unequal heights, the second
\* of which was inserted.
C24_Witness ==
    /\ lastOp = "removePages"
    /\ Len(m_itemsInOrder) = 2
    /\ composite[m_itemsInOrder[1]].h # composite[m_itemsInOrder[2]].h
    /\ pageNum[m_itemsInOrder[2]] >= 2

\* C25 as stated: invalidateThumbnail on the last page in display order,
\* with a new visual taller than the old one by d, changes the position of
\* no other visual and makes the bottom of the scene bounds grow by d.
C25_LastPageGrows ==
    [][lastOp' = "invalidateThumbnail" =>
       \A page_id \in Range(m_itemsInOrder), v \in LayoutVisuals :
           (/\ ~crashed
            /\ page_id = m_itemsInOrder[Len(m_itemsInOrder)]
            /\ v.h > composite[page_id].h
            /\ invalidateThumbnail(page_id, v)) =>
               /\ \A other \in Range(m_itemsInOrder) \ {page_id} :
                      composite'[other] = composite[other]
               /\ m_sceneRect'.b = m_sceneRect.b + (v.h - composite[page_id].h)
               /\ sceneRect'.b = sceneRect.b + (v.h - composite[page_id].h)]_vars

\* C25: the same, for a last page that the order provider, if there is one,
\* still places last.
C25_LastPageStaysAndGrows ==
    [][lastOp' = "invalidateThumbnail" =>
       \A page_id \in Range(m_itemsInOrder), v \in LayoutVisuals :
           (/\ ~crashed
            /\ page_id = m_itemsInOrder[Len(m_itemsInOrder)]
            /\ Len(m_itemsInOrder) >= 2 =>
                   ~Precedes(m_ptrOrderProvider, page_id,
                             m_itemsInOrder[Len(m_itemsInOrder) - 1])
            /\ v.h > composite[page_id].h
            /\ invalidateThumbnail(page_id, v)) =>
               /\ m_itemsInOrder' = m_itemsInOrder
               /\ \A other \in Range(m_itemsInOrder) \ {page_id} :
                      composite'[other] = composite[other]
               /\ composite'[page_id].y = composite[page_id].y
               /\ m_sceneRect'.b = m_sceneRect.b + (v.h - composite[page_id].h)
               /\ sceneRect'.b = sceneRect.b + (v.h - composite[page_id].h)]_vars

\* invalidateThumbnail left a tall visual at the end of the display order,
\* below a short one, with no order provider to move it.
C25_Witness ==
    /\ lastOp = "invalidateThumbnail"
    /\ m_ptrOrderProvider = NoProvider
    /\ Len(m_itemsInOrder) >= 2
    /\ composite[m_itemsInOrder[Len(m_itemsInOrder)]].h = 30
    /\ composite[m_itemsInOrder[1]].h = 20
    /\ m_sceneRect.b = composite[m_itemsInOrder[Len(m_itemsInOrder)]].y
                          - BoundingTop + 30

\* The scene rectangle a pass over all the visuals leaves: their union.
SceneUnion ==
    UniteAll(m_itemsInOrder, composite, 1, Len(m_itemsInOrder) + 1, NullRect)

\* C26: after every completed operation the scene bounds are the union of
\* the rectangles of all the visuals, and the zero rectangle when the store
\* is empty.
C26_SceneIsUnion ==
    /\ m_sceneRect = SceneUnion
    /\ m_itemsInOrder # <<>> => sceneRect = SceneUnion
    /\ m_itemsInOrder = <<>> => m_sceneRect = NullRect

\* C27: with an order provider whose answers are a fixed strict weak
\* ordering, the display order is sorted by it after reset and after any
\* sequence of insert, invalidateThumbnail and invalidateAllThumbnails: no
\* page precedes a page displayed before it.
C27_SortedByProvider ==
    m_ptrOrderProvider # NoProvider =>
        \A i, j \in 1..Len(m_itemsInOrder) :
            i < j => ~Precedes(m_ptrOrderProvider, m_itemsInOrder[j], m_itemsInOrder[i])

\* A page was inserted between or around two others under the provider.
C27_Witness ==
    /\ lastOp = "insert"
    /\ m_ptrOrderProvider # NoProvider
    /\ Len(m_itemsInOrder) = 3
    /\ Precedes(m_ptrOrderProvider, m_itemsInOrder[1], m_itemsInOrder[3])

\* C28: itemInsertPosition(begin, end, page_id, hint) with hint in
\* [begin, end]: without an order provider it returns hint and the distance
\* 0; with a provider it returns a position p of [begin, end] such that p is
\* end or page_id precedes the element at p, and p is begin or page_id does
\* not precede the element before p; the distance it reports is the signed
\* number of positions from hint to p.
C28_InsertPosition ==
    \A begin \in 1..(Len(m_itemsInOrder) + 1) :
      \A end \in begin..(Len(m_itemsInOrder) + 1) :
        \A hint \in begin..end, page_id \in PageIds :
            LET ins == itemInsertPosition(m_ptrOrderProvider, m_itemsInOrder,
                                          begin, end, page_id, hint)
                p == ins.pos
            IN  IF m_ptrOrderProvider = NoProvider
                THEN p = hint /\ ins.dist = 0
                ELSE /\ p \in begin..end
                     /\ \/ p = end
                        \/ Precedes(m_ptrOrderProvider, page_id, m_itemsInOrder[p])
                     /\ \/ p = begin
                        \/ ~Precedes(m_ptrOrderProvider, page_id, m_itemsInOrder[p - 1])
                     /\ ins.dist = p - hint

\* invalidateThumbnail has placed a page among three that the provider's
\* present answers do not sort, so that the position found depends on the
\* hint.
C28_Witness ==
    /\ lastOp = "invalidateThumbnail"
    /\ m_ptrOrderProvider # NoProvider
    /\ Len(m_itemsInOrder) = 3
    /\ Precedes(m_ptrOrderProvider, m_itemsInOrder[3], m_itemsInOrder[1])

\* C29: when invalidateThumbnail or invalidateAllThumbnails replaces the
\* visual of a page, the old visual is off the canvas before, or in the same
\* step as, the new one is put on it: at no step in between does the canvas
\* hold both the old and the new visual of a page.
C29_NeverBothVisuals ==
    \A page_id \in PageIds :
        ~(Visual(page_id, FALSE) \in canvas /\ Visual(page_id, TRUE) \in canvas)

\* C31: invalidateThumbnail emits a newSelectionLeader notification, flagged
\* REDUNDANT_SELECTION, exactly when the invalidated page is the selection
\* leader and the size or the position of its visual differs from what it
\* was before the call; invalidating the leader with the size and the
\* position unchanged emits nothing.
C31_NotifiesIffLeaderChanged ==
    [][lastOp' = "invalidateThumbnail" =>
       \A page_id \in PageIds, v \in LayoutVisuals :
           (~crashed /\ invalidateThumbnail(page_id, v)) =>
               IF /\ page_id \in Range(m_itemsInOrder)
                  /\ page_id = m_pSelectionLeader
                  /\ composite'[page_id] # composite[page_id]
               THEN signals' = <<Signal(page_id, page_id, {REDUNDANT_SELECTION})>>
               ELSE signals' = <<>>]_vars
====
